---- MODULE Spec2Model ----
(***************************************************************************)
(* snapcast_admin: the command line remote control of the snapcast podcast *)
(* host.  The repository holds two entry points:                           *)
(*   - run()  in snapcast_admin/__init__.py (argparse; comma separated id  *)
(*            lists, several field/value pairs per update);                *)
(*   - cli()  in snapcast_admin/cli.py + snapcast.py (click; one episode,  *)
(*            one field and one value per invocation).                     *)
(* One invocation of either is modelled as a sequential process; every     *)
(* network call is one step whose response the environment chooses.        *)
(* Python strings are sequences of one-character strings.                  *)
(***************************************************************************)
EXTENDS Integers, Sequences, FiniteSets, TLC

\* ---------------------------------------------------------------- bounds
MaxIds == 2         \* identifiers in one comma separated list
MaxEp == 2          \* episodes 1..MaxEp are in the catalog at the start
MaxPairs == 2       \* field/value pairs on one update command line
MaxVersions == 3    \* stored versions of one media object at the start
MaxReuploads == 1   \* concurrent re-uploads during one purge loop

\* ------------------------------------------------------- program constants
NOT_FOUND == 404
HTTP_OK == 200
HTTP_SERVER_ERROR == 500
NO_RESPONSE == 0    \* requests raised (timeout, connection error): no status
UuidHexLen == 32    \* uuid.UUID(hex): 32 hexadecimal digits after stripping

database_fields ==
    { <<"t", "i", "t", "l", "e">>,
      <<"s", "u", "m", "m", "a", "r", "y">>,
      <<"s", "u", "b", "t", "i", "t", "l", "e">>,
      <<"l", "o", "n", "g", "_", "s", "u", "m", "m", "a", "r", "y">>,
      <<"m", "e", "d", "i", "a", "_", "u", "r", "l">>,
      <<"m", "e", "d", "i", "a", "_", "s", "i", "z", "e">>,
      <<"m", "e", "d", "i", "a", "_", "t", "y", "p", "e">>,
      <<"m", "e", "d", "i", "a", "_", "d", "u", "r", "a", "t", "i", "o", "n">>,
      <<"p", "u", "b", "_", "d", "a", "t", "e">>,
      <<"l", "i", "n", "k">>,
      <<"e", "p", "i", "s", "o", "d", "e", "_", "a", "r", "t">> }

cli_database_fields ==
    { <<"t", "i", "t", "l", "e">>,
      <<"s", "u", "b", "t", "i", "t", "l", "e">>,
      <<"d", "e", "s", "c", "r", "i", "p", "t", "i", "o", "n">>,
      <<"m", "e", "d", "i", "a", "_", "u", "r", "l">>,
      <<"m", "e", "d", "i", "a", "_", "s", "i", "z", "e">>,
      <<"m", "e", "d", "i", "a", "_", "t", "y", "p", "e">>,
      <<"m", "e", "d", "i", "a", "_", "d", "u", "r", "a", "t", "i", "o", "n">>,
      <<"p", "u", "b", "_", "d", "a", "t", "e">>,
      <<"l", "i", "n", "k">>,
      <<"i", "m", "a", "g", "e">>,
      <<"e", "p", "i", "s", "o", "d", "e", "_", "t", "y", "p", "e">>,
      <<"s", "e", "a", "s", "o", "n">>,
      <<"e", "p", "i", "s", "o", "d", "e">>,
      <<"t", "r", "a", "n", "s", "c", "r", "i", "p", "t">>,
      <<"t", "r", "a", "n", "s", "c", "r", "i", "p", "t", "_", "t", "y", "p", "e">> }

media_duration == <<"m", "e", "d", "i", "a", "_", "d", "u", "r", "a", "t", "i", "o", "n">>
pub_date == <<"p", "u", "b", "_", "d", "a", "t", "e">>
title == <<"t", "i", "t", "l", "e">>

\* ------------------------------------------------------------ str helpers
Digits == <<"0", "1", "2", "3", "4", "5", "6", "7", "8", "9">>
HexLetters == {"a", "b", "c", "d", "e", "f"}

IsDigit(c) == \E i \in 1..Len(Digits) : Digits[i] = c

DigitVal(c) == (CHOOSE i \in 1..Len(Digits) : Digits[i] = c) - 1

IsHex(c) == IsDigit(c) \/ c \in HexLetters

RECURSIVE Pow(_, _)
Pow(b, e) == IF e = 0 THEN 1 ELSE b * Pow(b, e - 1)

\* value of a non-empty string of decimal digits
RECURSIVE DecVal(_)
DecVal(d) ==
    IF Len(d) = 0 THEN 0
    ELSE 10 * DecVal(SubSeq(d, 1, Len(d) - 1)) + DigitVal(d[Len(d)])

\* str(n) for an integer n
RECURSIVE NatStr(_)
NatStr(n) ==
    IF n < 10 THEN <<Digits[n + 1]>>
    ELSE NatStr(n \div 10) \o <<Digits[(n % 10) + 1]>>

IntStr(n) == IF n < 0 THEN <<"-">> \o NatStr(0 - n) ELSE NatStr(n)

\* int(s): [ok |-> FALSE] stands for ValueError.  Over the alphabet used here
\* (digits, "-", letters, ",", ":", "/", "%") int() accepts exactly an
\* optional "-" followed by one or more digits.
int(s) ==
    LET neg == Len(s) > 0 /\ s[1] = "-"
        d   == IF neg THEN Tail(s) ELSE s
    IN  IF Len(d) = 0 \/ \E i \in 1..Len(d) : ~IsDigit(d[i])
        THEN [ok |-> FALSE, val |-> 0]
        ELSE [ok |-> TRUE, val |-> IF neg THEN 0 - DecVal(d) ELSE DecVal(d)]

\* s.split(sep): always at least one item, items may be empty
RECURSIVE split(_, _)
split(s, sep) ==
    IF \A i \in 1..Len(s) : s[i] # sep THEN <<s>>
    ELSE LET k == CHOOSE i \in 1..Len(s) :
                      s[i] = sep /\ \A j \in 1..(i - 1) : s[j] # sep
         IN  <<SubSeq(s, 1, k - 1)>> \o split(SubSeq(s, k + 1, Len(s)), sep)

\* sep.join(items)
RECURSIVE join(_, _)
join(items, sep) ==
    IF Len(items) = 0 THEN <<>>
    ELSE IF Len(items) = 1 THEN items[1]
    ELSE items[1] \o <<sep>> \o join(Tail(items), sep)

Remove(s, c) == SelectSeq(s, LAMBDA x : x # c)

\* uuid.UUID(item) does not raise ValueError: after dropping the hyphens
\* (wherever they stand) 32 hexadecimal digits remain.
UUID(item) ==
    LET hex == Remove(item, "-")
    IN  Len(hex) = UuidHexLen /\ \A i \in 1..Len(hex) : IsHex(hex[i])

\* urllib.parse.unquote restricted to the escape "%20"
RECURSIVE unquote(_)
unquote(s) ==
    IF Len(s) = 0 THEN <<>>
    ELSE IF Len(s) >= 3 /\ SubSeq(s, 1, 3) = <<"%", "2", "0">>
         THEN <<" ">> \o unquote(SubSeq(s, 4, Len(s)))
         ELSE <<s[1]>> \o unquote(Tail(s))

Last(s) == s[Len(s)]

Max(S) == CHOOSE x \in S : \A y \in S : y <= x

\* all sequences over S of length lo..hi
SeqsOf(S, lo, hi) == UNION { [1..n -> S] : n \in lo..hi }

\* --------------------------------------------------------------- entities
\* The Episode fields the commands read: id, uuid, media_url.
UuidOf(n) ==
    [i \in 1..36 |-> IF i \in {9, 14, 19, 24} THEN "-"
                     ELSE IF i = 36 THEN Digits[n + 1] ELSE "a"]

MediaUrlOf(n) == <<"b", "/", "e", "p", "%", "2", "0", Digits[n + 1]>>

Episode(n) == [id |-> n, uuid |-> UuidOf(n), media_url |-> MediaUrlOf(n)]

NoEpisode == [id |-> 0, uuid |-> <<>>, media_url |-> <<>>]

\* filename = unquote(episode.media_url.split("/")[-1])
filename(ep) == unquote(Last(split(ep.media_url, "/")))

\* JSON values of a PATCH body: a str or an int
StrVal(s) == [kind |-> "str", str |-> s, int |-> 0]
IntVal(n) == [kind |-> "int", str |-> <<>>, int |-> n]

\* ------------------------------------------------------- identifier parser
\* id_class with the bound of the range test off by one: 0 passes.
id_class_zero_ok(item) ==
    LET item_id == int(item)
    IN  IF item_id.ok
        THEN IF item_id.val >= 0 \/ item_id.val = -1
             THEN "numeric" ELSE "not_a_valid_episode_id"
        ELSE IF UUID(item) THEN "uuid" ELSE "not_a_valid_uuid"

\* The branch episode_id_converter takes for one item of the list.
id_class(item) ==
    LET item_id == int(item)
    IN  IF item_id.ok
        THEN IF item_id.val > 0 \/ item_id.val = -1
             THEN "numeric" ELSE "not_a_valid_episode_id"
        ELSE IF UUID(item) THEN "uuid" ELSE "not_a_valid_uuid"

\* ok = FALSE stands for ArgumentTypeError (raised at the first bad item).
episode_id_converter(s) ==
    LET items == split(s, ",")
        bad   == {i \in 1..Len(items) : id_class(items[i]) \notin {"numeric", "uuid"}}
    IN  IF bad = {}
        THEN [ok |-> TRUE, items |-> items, msg |-> ""]
        ELSE [ok |-> FALSE, items |-> <<>>,
              msg |-> id_class(items[CHOOSE i \in bad : \A j \in bad : i <= j])]

\* ------------------------------------------------------- FieldValueAction
\* ok = FALSE stands for ArgumentError; pairs hold the raw values.
FieldValueAction(values) ==
    LET n     == Len(values)
        pairs == [i \in 1..(n \div 2) |->
                     [field |-> values[2 * i - 1], value |-> StrVal(values[2 * i])]]
    IN  IF n = 0
        THEN [ok |-> FALSE, pairs |-> <<>>, msg |-> "arguments_not_present"]
        ELSE IF n % 2 # 0
        THEN [ok |-> FALSE, pairs |-> <<>>, msg |-> "mismatched_field_value_pair"]
        ELSE IF \E i \in 1..Len(pairs) : pairs[i].field \notin database_fields
        THEN [ok |-> FALSE, pairs |-> <<>>, msg |-> "field_must_be_one_of"]
        ELSE [ok |-> TRUE, pairs |-> pairs, msg |-> ""]

\* ------------------------------------------------------------ value coercion
\* duration_seconds without the [::-1]: the components weighted left to right.
duration_seconds_not_reversed(value) ==
    LET comps == split(value, ":")
        n     == Len(comps)
        RECURSIVE Sum(_)
        Sum(k) == IF k = 0 THEN 0
                  ELSE Pow(60, k - 1) * int(comps[k]).val + Sum(k - 1)
    IN  IF \E k \in 1..n : ~int(comps[k]).ok
        THEN [ok |-> FALSE, wire |-> IntVal(0)]
        ELSE [ok |-> TRUE, wire |-> IntVal(Sum(n))]

\* sum(60 ** i * int(v) for i, v in enumerate(value.split(":")[::-1]))
duration_seconds(value) ==
    LET comps == split(value, ":")
        n     == Len(comps)
        RECURSIVE Sum(_)
        Sum(k) == IF k = 0 THEN 0
                  ELSE Pow(60, n - k) * int(comps[k]).val + Sum(k - 1)
    IN  IF \E k \in 1..n : ~int(comps[k]).ok
        THEN [ok |-> FALSE, wire |-> IntVal(0)]
        ELSE [ok |-> TRUE, wire |-> IntVal(Sum(n))]

\* datetime.fromisoformat(value) accepts the date-only form YYYY-MM-DD (the
\* one form sampled here); the process-local timezone is taken to be UTC, so
\* astimezone(utc).isoformat() renders local midnight as ...T00:00:00+00:00.
utc_isoformat(value) ==
    LET shape == /\ Len(value) = 10
                 /\ \A i \in 1..10 : IF i \in {5, 8} THEN value[i] = "-"
                                      ELSE IsDigit(value[i])
    IN  IF ~shape THEN [ok |-> FALSE, wire |-> StrVal(<<>>)]
        ELSE [ok |-> TRUE,
              wire |-> StrVal(value \o <<"T", "0", "0", ":", "0", "0", ":", "0", "0",
                                        "+", "0", "0", ":", "0", "0">>)]

\* The match statement of handle_update / update_episode on one pair;
\* ok = FALSE stands for the ValueError of int() or fromisoformat().
coerce(field, value) ==
    IF field = media_duration THEN duration_seconds(value.str)
    ELSE IF field = pub_date THEN utc_isoformat(value.str)
    ELSE [ok |-> TRUE, wire |-> value]

\* dict that keeps the first pair only: one field per PATCH body.
dict_first_pair(pairs) ==
    [f \in {pairs[1].field} |-> pairs[1].value]

\* dict(args.set): a later pair of the same field replaces an earlier one
dict(pairs) ==
    [f \in {pairs[i].field : i \in 1..Len(pairs)} |->
        pairs[Max({i \in 1..Len(pairs) : pairs[i].field = f})].value]

\* ------------------------------------------------------- command line inputs
bogus == <<"t", "i", "t", "l">>

\* the integers tried as identifiers: ids the catalog holds, the sentinel -1,
\* 0, other negative numbers, and an id of several digits the catalog lacks
IntPool == {0 - 10, 0 - 2, 0 - 1, 0, 1, 2, 10}

ItemPool == {IntStr(n) : n \in IntPool} \cup {<<"x">>, UuidOf(1)}

RawIds == {join(items, ",") : items \in SeqsOf(ItemPool, 1, MaxIds)}

PairPool ==
    { <<title, <<"x">>>>,
      <<media_duration, <<"1", ":", "3", "0">>>>,
      <<media_duration, <<"x">>>>,
      <<pub_date, <<"2", "0", "2", "4", "-", "0", "1", "-", "0", "2">>>>,
      <<pub_date, <<"x">>>>,
      <<bogus, <<"x">>>> }

RECURSIVE Flatten(_)
Flatten(ps) == IF Len(ps) = 0 THEN <<>> ELSE ps[1] \o Flatten(Tail(ps))

\* the words after the identifier on an update command line
SetArgs ==
    {Flatten(ps) \o d : ps \in SeqsOf(PairPool, 0, MaxPairs), d \in {<<>>, <<title>>}}

\* ------------------------------------------------------------------ state
VARIABLES
    entry,          \* "run" (__init__.py, argparse) or "cli" (cli.py, click)
    cmd,            \* the subcommand: "list", "info", "update", "delete"
    pc,             \* position of the invocation
    rawId,          \* the identifier word of the command line
    args_id,        \* run: args.id, the list episode_id_converter returned
    args_set,       \* the field/value pairs (run: args.set; cli: field, value)
    episode,        \* the Episode fetched for info/delete (cli: also update)
    episode_uuids,  \* run, handle_update: the uuids resolved so far
    idx,            \* index of the running for loop
    catalog,        \* remote: ids of the episodes the catalog holds
    store,          \* remote: object key -> number of stored versions
    calls,          \* every remote call made so far, in order, with its status
    reuploads,      \* re-uploads by other processes during the purge loop
    stored0,        \* history: the store as it was when the invocation began
    exitStatus,     \* process exit status, -1 while running
    result,         \* how the invocation ended
    message         \* the error reported to the user, "" if none

vars == <<entry, cmd, pc, rawId, args_id, args_set, episode, episode_uuids, idx,
          catalog, store, calls, reuploads, stored0, exitStatus, result, message>>

args    == <<rawId, args_id, args_set>>
locals  == <<episode, episode_uuids, idx>>
remote  == <<catalog, store, reuploads, stored0>>
outcome == <<exitStatus, result, message>>

ObjectKeys == {filename(Episode(n)) : n \in 1..MaxEp}

NoBody == [f \in {} |-> StrVal(<<>>)]

Call(op, key, status, body) ==
    [op |-> op, key |-> key, status |-> status, body |-> body]

Ok2xx(status) == status >= 200 /\ status < 300

Init ==
    /\ entry \in {"run", "cli"}
    /\ cmd \in {"list", "info", "update", "delete"}
    /\ pc = "parse"
    /\ rawId = <<>> /\ args_id = <<>> /\ args_set = <<>>
    /\ episode = NoEpisode /\ episode_uuids = <<>> /\ idx = 1
    /\ catalog = 1..MaxEp
    \* the stored versions matter to delete only: the other commands start
    \* from one representative store
    /\ \E k \in 0..MaxVersions :
          /\ cmd # "delete" => k = 1
          /\ store = [f \in ObjectKeys |-> k]
          /\ stored0 = [f \in ObjectKeys |-> k]
    /\ calls = <<>> /\ reuploads = 0
    /\ exitStatus = -1 /\ result = "running" /\ message = ""

\* The process ends: sys.exit / uncaught exception / return from the entry.
Exit(status, res, msg) ==
    /\ pc' = "done" /\ exitStatus' = status /\ result' = res /\ message' = msg

\* ------------------------------------------------------------ catalog service
\* The record GET /episode/{key} resolves to, 0 if none: an episode number,
\* -1 for the latest, or a uuid.
Lookup(cat, key) ==
    LET n == int(key)
    IN  IF n.ok
        THEN IF n.val = -1 THEN (IF cat = {} THEN 0 ELSE Max(cat))
             ELSE IF n.val \in cat THEN n.val ELSE 0
        ELSE IF \E e \in cat : UuidOf(e) = key
             THEN CHOOSE e \in cat : UuidOf(e) = key ELSE 0

\* The responses requests.get(.../episode/{key}) can bring.
GetResponses(cat, key) ==
    {[status |-> (IF Lookup(cat, key) = 0 THEN NOT_FOUND ELSE HTTP_OK),
      ep |-> Lookup(cat, key)],
     [status |-> HTTP_SERVER_ERROR, ep |-> 0],
     [status |-> NO_RESPONSE, ep |-> 0]}

\* The statuses a PATCH or DELETE of /episode/{uuid} can bring.
MutateStatuses(cat, uuid) ==
    {(IF \E e \in cat : UuidOf(e) = uuid THEN HTTP_OK ELSE NOT_FOUND),
     HTTP_SERVER_ERROR, NO_RESPONSE}

\* The catalog after DELETE /episode/{uuid} answered with status.
Deleted(cat, uuid, status) ==
    IF Ok2xx(status) THEN {e \in cat : UuidOf(e) # uuid} ELSE cat

\* r.raise_for_status() raises HTTPError
raise_for_status(status) == status >= 400 /\ status < 600

\* is_not_found testing for the wrong status code.
is_not_found_400(status) == status = 400

\* episode_info: the 404 test that raises ArgumentError / InvalidIdError
is_not_found(status) == status = NOT_FOUND

\* ------------------------------------------------------- run(): parse_args
\* argparse takes a word that starts with "-" for an option unless it is a
\* negative number ("-1" is an argument, "-1,2" is not): the sub-parsers
\* declare no such option, so the word is refused (usage message, status 2)
\* and the type function is not called on it.
argparse_reads_as_option(raw) ==
    /\ Len(raw) > 1 /\ raw[1] = "-"
    /\ \E i \in 2..Len(raw) : ~IsDigit(raw[i])

\* admin_parser.parse_args(): episode_id_converter on the id word, then (for
\* update) FieldValueAction on the remaining words.  argparse turns
\* ArgumentTypeError / ArgumentError into a usage message and exit status 2.
run_parse_args ==
    /\ entry = "run" /\ pc = "parse"
    /\ UNCHANGED <<entry, cmd, locals, remote, calls>>
    /\ IF cmd = "list"
       THEN pc' = "func" /\ UNCHANGED <<args, outcome>>
       ELSE \E raw \in RawIds :
            LET conv == episode_id_converter(raw)
            IN  /\ rawId' = raw
                /\ IF argparse_reads_as_option(raw)
                   THEN Exit(2, "validation", "unrecognized_arguments")
                        /\ UNCHANGED <<args_id, args_set>>
                   ELSE IF ~conv.ok
                   THEN Exit(2, "validation", conv.msg)
                        /\ UNCHANGED <<args_id, args_set>>
                   ELSE IF cmd # "update"
                   THEN /\ args_id' = conv.items /\ pc' = "func"
                        /\ UNCHANGED <<args_set, outcome>>
                   ELSE \E values \in SetArgs :
                        LET fv == FieldValueAction(values)
                        IN  IF ~fv.ok
                            THEN Exit(2, "validation", fv.msg)
                                 /\ UNCHANGED <<args_id, args_set>>
                            ELSE /\ args_id' = conv.items /\ args_set' = fv.pairs
                                 /\ pc' = "func" /\ UNCHANGED outcome

\* ------------------------------------------------------------ list (both)
\* get_all_episodes(): data.raise_for_status(); the listing is printed.
handle_list ==
    /\ pc = "func" /\ cmd = "list"
    /\ UNCHANGED <<entry, cmd, args, locals, remote>>
    /\ \E status \in {HTTP_OK, HTTP_SERVER_ERROR, NO_RESPONSE} :
          /\ calls' = Append(calls, Call("GET_ALL", <<>>, status, NoBody))
          /\ IF status = NO_RESPONSE \/ raise_for_status(status)
             THEN Exit(1, "remote", "exception")
             ELSE Exit(0, "success", "")

\* run(): what `except ArgumentError as err: print(err)` leaves: the process
\* goes on to the end of run() and exits with status 0.
run_catch_ArgumentError == Exit(0, "notfound", "was_not_found")

\* An exception nothing catches: traceback on stderr, exit status 1.
Uncaught(res, msg) == Exit(1, res, msg)

\* ------------------------------------------------------- run(): handle_info
handle_info ==
    /\ entry = "run" /\ pc = "func" /\ cmd = "info"
    /\ UNCHANGED <<entry, cmd, args, episode_uuids, idx, remote>>
    /\ \E resp \in GetResponses(catalog, args_id[1]) :
          /\ calls' = Append(calls, Call("GET", args_id[1], resp.status, NoBody))
          /\ IF is_not_found(resp.status)
             THEN run_catch_ArgumentError /\ UNCHANGED episode
             ELSE IF resp.status # HTTP_OK
             THEN Uncaught("remote", "exception") /\ UNCHANGED episode
             ELSE episode' = Episode(resp.ep) /\ Exit(0, "success", "")

\* ----------------------------------------------------- run(): handle_update
\* episode_uuids = [episode_info(i).uuid for i in args.id], one GET a step
handle_update_resolve ==
    /\ entry = "run" /\ pc = "func" /\ cmd = "update"
    /\ idx <= Len(args_id)
    /\ UNCHANGED <<entry, cmd, args, episode, remote>>
    /\ \E resp \in GetResponses(catalog, args_id[idx]) :
          /\ calls' = Append(calls, Call("GET", args_id[idx], resp.status, NoBody))
          /\ IF is_not_found(resp.status)
             THEN run_catch_ArgumentError /\ UNCHANGED <<episode_uuids, idx>>
             ELSE IF resp.status # HTTP_OK
             THEN Uncaught("remote", "exception") /\ UNCHANGED <<episode_uuids, idx>>
             ELSE /\ episode_uuids' = Append(episode_uuids, Episode(resp.ep).uuid)
                  /\ IF idx = Len(args_id)
                     THEN pc' = "coerce" /\ idx' = 1
                     ELSE pc' = pc /\ idx' = idx + 1
                  /\ UNCHANGED outcome

\* handle_update_coerce done field by field, each coerced field sent at once:
\* the fields before a malformed one are patched on the first episode before
\* the ValueError ends the process.
handle_update_coerce_per_field ==
    /\ entry = "run" /\ pc = "coerce"
    /\ UNCHANGED <<entry, cmd, rawId, args_id, locals, remote>>
    /\ LET bad     == {i \in 1..Len(args_set) :
                          ~coerce(args_set[i].field, args_set[i].value).ok}
           coerced == [i \in 1..Len(args_set) |->
                          [field |-> args_set[i].field,
                           value |-> coerce(args_set[i].field,
                                            args_set[i].value).wire]]
       IN  IF bad = {}
           THEN /\ args_set' = coerced /\ pc' = "patch"
                /\ UNCHANGED <<calls, outcome>>
           ELSE LET first == CHOOSE i \in bad : \A j \in bad : i <= j
                IN  /\ calls' = IF first = 1 THEN calls
                                ELSE Append(calls,
                                         Call("PATCH", episode_uuids[1], HTTP_OK,
                                              dict(SubSeq(coerced, 1, first - 1))))
                    /\ Uncaught("valueerror", "exception")
                    /\ UNCHANGED args_set

\* for pair in args.set: match pair[0] ...: every pair is coerced in place
\* before the first PATCH; a ValueError ends the process.
handle_update_coerce ==
    /\ entry = "run" /\ pc = "coerce"
    /\ UNCHANGED <<entry, cmd, rawId, args_id, locals, remote, calls>>
    /\ IF \E i \in 1..Len(args_set) : ~coerce(args_set[i].field, args_set[i].value).ok
       THEN Uncaught("valueerror", "exception") /\ UNCHANGED args_set
       ELSE /\ args_set' = [i \in 1..Len(args_set) |->
                               [field |-> args_set[i].field,
                                value |-> coerce(args_set[i].field,
                                                 args_set[i].value).wire]]
            /\ pc' = "patch" /\ UNCHANGED outcome

\* for episode_uuid in episode_uuids: patch(..., json=dict(args.set)); the
\* response is dropped.
handle_update_patch ==
    /\ entry = "run" /\ pc = "patch"
    /\ idx <= Len(episode_uuids)
    /\ UNCHANGED <<entry, cmd, args, episode, episode_uuids, remote>>
    /\ \E status \in MutateStatuses(catalog, episode_uuids[idx]) :
          /\ calls' = Append(calls,
                 Call("PATCH", episode_uuids[idx], status, dict(args_set)))
          /\ IF status = NO_RESPONSE
             THEN Uncaught("remote", "exception") /\ UNCHANGED idx
             ELSE /\ idx' = idx + 1
                  /\ pc' = IF idx = Len(episode_uuids) THEN "return" ELSE pc
                  /\ UNCHANGED outcome

\* ----------------------------------------------------- run(): handle_delete
\* episode = episode_info(args.id[0])
handle_delete_fetch ==
    /\ entry = "run" /\ pc = "func" /\ cmd = "delete"
    /\ UNCHANGED <<entry, cmd, args, episode_uuids, idx, remote>>
    /\ \E resp \in GetResponses(catalog, args_id[1]) :
          /\ calls' = Append(calls, Call("GET", args_id[1], resp.status, NoBody))
          /\ IF is_not_found(resp.status)
             THEN run_catch_ArgumentError /\ UNCHANGED episode
             ELSE IF resp.status # HTTP_OK
             THEN Uncaught("remote", "exception") /\ UNCHANGED episode
             ELSE episode' = Episode(resp.ep) /\ pc' = "delete" /\ UNCHANGED outcome

\* delete(f"{BASE_URL}/{FEED_ID}/episode/{episode.uuid}", ...): the response
\* is dropped and the purge follows whatever the status.
handle_delete_request ==
    /\ entry = "run" /\ pc = "delete"
    /\ UNCHANGED <<entry, cmd, args, locals, store, reuploads, stored0>>
    /\ \E status \in MutateStatuses(catalog, episode.uuid) :
          /\ calls' = Append(calls, Call("DELETE", episode.uuid, status, NoBody))
          /\ catalog' = Deleted(catalog, episode.uuid, status)
          /\ IF status = NO_RESPONSE
             THEN Uncaught("remote", "exception")
             ELSE pc' = "get_b2" /\ UNCHANGED outcome

\* ------------------------------------------------------- cli(): click parsing
\* `delete` is declared without ignore_unknown_options: click reads a word
\* that starts with "-" as an option and fails with "No such option".
looks_like_option(raw) == Len(raw) > 1 /\ raw[1] = "-"

cli_parse ==
    /\ entry = "cli" /\ pc = "parse"
    /\ UNCHANGED <<entry, cmd, args_id, args_set, locals, remote, calls>>
    /\ IF cmd = "list"
       THEN pc' = "func" /\ UNCHANGED <<rawId, outcome>>
       ELSE \E raw \in RawIds :
            /\ rawId' = raw
            /\ IF cmd = "delete" /\ looks_like_option(raw)
               THEN Exit(2, "validation", "no_such_option")
               ELSE pc' = "convert" /\ UNCHANGED outcome

\* EpisodeType.convert: episode_info(value) on the raw word, before the
\* parameters declared after `episode` are looked at.  InvalidIdError is no
\* click exception: nothing catches it.
EpisodeType_convert ==
    /\ entry = "cli" /\ pc = "convert"
    /\ UNCHANGED <<entry, cmd, args, episode_uuids, idx, remote>>
    /\ \E resp \in GetResponses(catalog, rawId) :
          /\ calls' = Append(calls, Call("GET", rawId, resp.status, NoBody))
          /\ IF is_not_found(resp.status)
             THEN Uncaught("notfound", "was_not_found") /\ UNCHANGED episode
             ELSE IF resp.status # HTTP_OK
             THEN Uncaught("remote", "exception") /\ UNCHANGED episode
             ELSE /\ episode' = Episode(resp.ep)
                  /\ pc' = IF cmd = "update" THEN "params" ELSE "func"
                  /\ UNCHANGED outcome

\* update's `field` (click.Choice(database_fields)) and `value` arguments,
\* then click's check for surplus words; ok = FALSE is a UsageError (exit 2).
cli_update_params(values) ==
    LET n == Len(values)
    IN  IF n = 0
        THEN [ok |-> FALSE, pairs |-> <<>>, msg |-> "missing_argument"]
        ELSE IF values[1] \notin cli_database_fields
        THEN [ok |-> FALSE, pairs |-> <<>>, msg |-> "invalid_choice"]
        ELSE IF n = 1
        THEN [ok |-> FALSE, pairs |-> <<>>, msg |-> "missing_argument"]
        ELSE IF n > 2
        THEN [ok |-> FALSE, pairs |-> <<>>, msg |-> "unexpected_extra_arguments"]
        ELSE [ok |-> TRUE, msg |-> "",
              pairs |-> <<[field |-> values[1], value |-> StrVal(values[2])]>>]

cli_update_parse ==
    /\ entry = "cli" /\ pc = "params"
    /\ UNCHANGED <<entry, cmd, rawId, args_id, locals, remote, calls>>
    /\ \E values \in SetArgs :
          LET p == cli_update_params(values)
          IN  IF ~p.ok
              THEN Exit(2, "validation", p.msg) /\ UNCHANGED args_set
              ELSE args_set' = p.pairs /\ pc' = "func" /\ UNCHANGED outcome

\* info: click.echo(pf(episode))
info ==
    /\ entry = "cli" /\ pc = "func" /\ cmd = "info"
    /\ pc' = "return"
    /\ UNCHANGED <<entry, cmd, args, locals, remote, calls, outcome>>

\* update -> update_episode(episode, field, value): coerce the value, then
\* one PATCH with json={field: value}; the response is dropped.
update_episode ==
    /\ entry = "cli" /\ pc = "func" /\ cmd = "update"
    /\ UNCHANGED <<entry, cmd, rawId, args_id, locals, remote>>
    /\ LET c == coerce(args_set[1].field, args_set[1].value)
       IN  IF ~c.ok
           THEN Uncaught("valueerror", "exception") /\ UNCHANGED <<args_set, calls>>
           ELSE /\ args_set' = <<[field |-> args_set[1].field, value |-> c.wire]>>
                /\ \E status \in MutateStatuses(catalog, episode.uuid) :
                      /\ calls' = Append(calls,
                             Call("PATCH", episode.uuid, status, dict(args_set')))
                      /\ IF status = NO_RESPONSE
                         THEN Uncaught("remote", "exception")
                         ELSE pc' = "return" /\ UNCHANGED outcome

\* delete -> delete_episode(episode): requests.delete, r.raise_for_status()
delete_episode ==
    /\ entry = "cli" /\ pc = "func" /\ cmd = "delete"
    /\ UNCHANGED <<entry, cmd, args, locals, store, reuploads, stored0>>
    /\ \E status \in MutateStatuses(catalog, episode.uuid) :
          /\ calls' = Append(calls, Call("DELETE", episode.uuid, status, NoBody))
          /\ catalog' = Deleted(catalog, episode.uuid, status)
          /\ IF status = NO_RESPONSE \/ raise_for_status(status)
             THEN Uncaught("remote", "exception")
             ELSE pc' = "get_b2" /\ UNCHANGED outcome

\* ------------------------------------------------- object store purge (both)
\* _, bucket = get_b2(): account authorization and bucket lookup
get_b2 ==
    /\ pc = "get_b2"
    /\ calls' = Append(calls, Call("GET_BUCKET", <<>>, HTTP_OK, NoBody))
    /\ pc' = "purge"
    /\ UNCHANGED <<entry, cmd, args, locals, remote, outcome>>

\* purge_delete_version without the loop: the latest version is deleted and
\* the handler returns.
purge_delete_once ==
    /\ pc = "purge" /\ store[filename(episode)] > 0
    /\ calls' = calls \o <<Call("GET_FILE_INFO", filename(episode), HTTP_OK, NoBody),
                           Call("DELETE_VERSION", filename(episode), HTTP_OK, NoBody)>>
    /\ store' = [store EXCEPT ![filename(episode)] = @ - 1]
    /\ pc' = "return"
    /\ UNCHANGED <<entry, cmd, args, locals, catalog, reuploads, stored0, outcome>>

\* bucket.get_file_info_by_name(filename).delete(): a version is stored
purge_delete_version ==
    /\ pc = "purge" /\ store[filename(episode)] > 0
    /\ calls' = calls \o <<Call("GET_FILE_INFO", filename(episode), HTTP_OK, NoBody),
                           Call("DELETE_VERSION", filename(episode), HTTP_OK, NoBody)>>
    /\ store' = [store EXCEPT ![filename(episode)] = @ - 1]
    /\ UNCHANGED <<entry, cmd, pc, args, locals, catalog, reuploads, stored0, outcome>>

\* except FileNotPresent: break; the handler returns
purge_file_not_present ==
    /\ pc = "purge" /\ store[filename(episode)] = 0
    /\ calls' = Append(calls,
           Call("GET_FILE_INFO", filename(episode), NOT_FOUND, NoBody))
    /\ pc' = "return"
    /\ UNCHANGED <<entry, cmd, args, locals, remote, outcome>>

\* another process uploads a new version under the same name meanwhile
reupload ==
    /\ pc = "purge" /\ reuploads < MaxReuploads
    /\ store' = [store EXCEPT ![filename(episode)] = @ + 1]
    /\ reuploads' = reuploads + 1
    /\ UNCHANGED <<entry, cmd, pc, args, locals, catalog, calls, stored0, outcome>>

\* the handler returned normally: the process exits with status 0
return ==
    /\ pc = "return"
    /\ Exit(0, "success", "")
    /\ UNCHANGED <<entry, cmd, args, locals, remote, calls>>

Next ==
    \/ run_parse_args
    \/ handle_list
    \/ handle_info
    \/ handle_update_resolve
    \/ handle_update_coerce
    \/ handle_update_patch
    \/ handle_delete_fetch
    \/ handle_delete_request
    \/ cli_parse
    \/ EpisodeType_convert
    \/ cli_update_parse
    \/ info
    \/ update_episode
    \/ delete_episode
    \/ get_b2
    \/ purge_delete_version
    \/ purge_file_not_present
    \/ reupload
    \/ return

Spec == Init /\ [][Next]_vars

\* ------------------------------------------------- duration values in detail
\* str(timedelta(seconds=n)), the form the listing shows a duration in:
\* H:MM:SS below one day, "D day, H:MM:SS" / "D days, H:MM:SS" from one day on.
SecondsPerDay == 86400

Pad2(n) == IF n < 10 THEN <<"0">> \o NatStr(n) ELSE NatStr(n)

timedelta_str(n) ==
    LET days == n \div SecondsPerDay
        rest == n % SecondsPerDay
        hms  == NatStr(rest \div 3600) \o <<":">> \o Pad2((rest % 3600) \div 60)
                    \o <<":">> \o Pad2(rest % 60)
    IN  IF days = 0 THEN hms
        ELSE NatStr(days) \o <<" ", "d", "a", "y">>
                 \o (IF days = 1 THEN <<>> ELSE <<"s">>) \o <<",", " ">> \o hms

\* the components tried in a [[HH:]MM:]SS value, and whole durations
CompPool == {0, 1, 30, 59, 90}

CompSeqs == UNION { [1..n -> CompPool] : n \in 1..3 }

SecondsPool == {0, 59, 60, 90, 3599, 3600, 3690, 86399, 86400}

\* a component list written plainly ("1:1:30") or two digits wide ("01:01:30")
Plain(cs) == join([i \in 1..Len(cs) |-> NatStr(cs[i])], ":")

Padded(cs) == join([i \in 1..Len(cs) |-> Pad2(cs[i])], ":")

DurationInputs ==
    {Plain(cs) : cs \in CompSeqs} \cup {Padded(cs) : cs \in CompSeqs}
        \cup {timedelta_str(n) : n \in SecondsPool}

\* An update of media_duration on episode 1, taken up where the value is
\* about to be coerced: run() after the ids were resolved, cli() after click
\* converted its arguments.
CoerceInit ==
    /\ entry \in {"run", "cli"}
    /\ cmd = "update"
    /\ rawId = <<"1">>
    /\ args_id = (IF entry = "run" THEN << <<"1">> >> ELSE <<>>)
    /\ \E v \in DurationInputs :
          args_set = <<[field |-> media_duration, value |-> StrVal(v)]>>
    /\ episode = (IF entry = "cli" THEN Episode(1) ELSE NoEpisode)
    /\ episode_uuids = (IF entry = "run" THEN <<UuidOf(1)>> ELSE <<>>)
    /\ idx = 1
    /\ pc = (IF entry = "run" THEN "coerce" ELSE "func")
    /\ catalog = 1..MaxEp
    /\ store = [f \in ObjectKeys |-> 1]
    /\ stored0 = [f \in ObjectKeys |-> 1]
    /\ calls = <<Call("GET", <<"1">>, HTTP_OK, NoBody)>>
    /\ reuploads = 0
    /\ exitStatus = -1 /\ result = "running" /\ message = ""

CoerceNext ==
    \/ handle_update_coerce
    \/ handle_update_patch
    \/ update_episode
    \/ return

CoerceSpec == CoerceInit /\ [][CoerceNext]_vars

\* ================================================================ properties
CallsOf(op) == {i \in 1..Len(calls) : calls[i].op = op}

StoreOps == {"GET_BUCKET", "GET_FILE_INFO", "DELETE_VERSION"}

PatchCalls == SelectSeq(calls, LAMBDA c : c.op = "PATCH")

\* the identifiers of rawId, as the comma separated list they were typed
RawItems == split(rawId, ",")

\* C1: a call to the object store (bucket lookup, get-file-info,
\* delete-version) is made only after a catalog DELETE that was answered 2xx:
\* a failed catalog delete aborts the operation before the purge.
C1_PurgeOnlyAfterCatalogDelete ==
    \A i \in 1..Len(calls) :
        calls[i].op \in StoreOps =>
            \E j \in 1..(i - 1) : calls[j].op = "DELETE" /\ Ok2xx(calls[j].status)

\* C2: in a delete invocation, once the single-episode fetch was answered
\* 404 the invocation has ended with the not-found error, and no catalog
\* DELETE and no object store call was made.
C2_NotFoundNeverReachesDelete ==
    (cmd = "delete" /\ \E i \in CallsOf("GET") : calls[i].status = NOT_FOUND) =>
        /\ pc = "done" /\ result = "notfound" /\ message = "was_not_found"
        /\ CallsOf("DELETE") = {}
        /\ \A i \in 1..Len(calls) : calls[i].op \notin StoreOps

C2_Witness ==
    /\ cmd = "delete" /\ pc = "done" /\ result = "notfound"
    /\ \E i \in CallsOf("GET") : calls[i].status = NOT_FOUND

\* C3: an update or delete given a comma separated list with an invalid
\* sub-identifier makes no network call at all and fails in validation.
C3_InvalidItemMeansNoNetworkCall ==
    (/\ cmd \in {"update", "delete"} /\ pc # "parse"
     /\ Len(RawItems) > 1
     /\ \E i \in 1..Len(RawItems) : id_class(RawItems[i]) \notin {"numeric", "uuid"})
    => /\ calls = <<>>
       /\ pc = "done" => result = "validation"

\* C4: an update that ends on an unknown field name ends as a validation
\* error without any network call having been made.
C4_UnknownFieldMeansNoNetworkCall ==
    (cmd = "update" /\ pc = "done"
        /\ message \in {"field_must_be_one_of", "invalid_choice"})
    => result = "validation" /\ calls = <<>>

IsIntItem(item) == \E n \in IntPool : IntStr(n) = item

NumOf(item) == CHOOSE n \in IntPool : IntStr(n) = item

ValidNumber(n) == n > 0 \/ n = -1

\* C5: the identifier parser takes the numeric branch for the decimal form of
\* every positive integer and of -1, and rejects the decimal form of every
\* other integer; an identifier word made of integers only that reaches the
\* parser is accepted (it becomes args.id) iff all of them are positive or
\* -1, and is otherwise turned down as "not a valid episode ID" with exit
\* status 2 before any network call.
C5_NumericIdentifiers ==
    (entry = "run" /\ cmd # "list" /\ pc # "parse") =>
        LET ints == {i \in 1..Len(RawItems) : IsIntItem(RawItems[i])}
        IN  /\ \A i \in ints :
                  id_class(RawItems[i]) =
                      IF ValidNumber(NumOf(RawItems[i]))
                      THEN "numeric" ELSE "not_a_valid_episode_id"
            /\ (ints = 1..Len(RawItems) /\ message # "unrecognized_arguments") =>
                  IF \A i \in ints : ValidNumber(NumOf(RawItems[i]))
                  THEN /\ message \notin {"not_a_valid_episode_id", "not_a_valid_uuid"}
                       /\ \/ args_id = RawItems
                          \/ cmd = "update" /\ result = "validation"
                  ELSE /\ pc = "done" /\ exitStatus = 2 /\ result = "validation"
                       /\ message = "not_a_valid_episode_id"
                       /\ args_id = <<>> /\ calls = <<>>

C5_Witness ==
    /\ entry = "run" /\ cmd = "info" /\ pc = "func"
    /\ rawId = <<"1", "0", ",", "-", "1">>
    /\ args_id = << <<"1", "0">>, <<"-", "1">> >>

\* the purge loop was entered and left
PurgeDone ==
    cmd = "delete" /\ pc \in {"return", "done"} /\ CallsOf("GET_BUCKET") # {}

\* C6: with k versions stored under the object key and no re-upload during
\* the loop, the purge issues exactly k delete-version calls, ends on the
\* lookup that reports not-found, leaves no version, and the invocation ends
\* without error; with re-uploads every delete-version call still removes
\* exactly one stored version.
C6_PurgeRemovesEveryVersion ==
    /\ (pc = "purge" \/ PurgeDone) =>
          Cardinality(CallsOf("DELETE_VERSION")) + store[filename(episode)]
              = stored0[filename(episode)] + reuploads
    /\ (PurgeDone /\ reuploads = 0) =>
          /\ Cardinality(CallsOf("DELETE_VERSION")) = stored0[filename(episode)]
          /\ store[filename(episode)] = 0
          /\ Last(calls).op = "GET_FILE_INFO" /\ Last(calls).status = NOT_FOUND
          /\ result \in {"running", "success"}
          /\ pc = "done" => exitStatus = 0

C6_Witness ==
    /\ PurgeDone /\ pc = "done" /\ reuploads = 0
    /\ stored0[filename(episode)] = 3
    /\ Cardinality(CallsOf("DELETE_VERSION")) = 3

\* the episodes an update resolved: run keeps their uuids, cli its one Episode
Resolved ==
    IF entry = "run" THEN episode_uuids
    ELSE IF episode = NoEpisode THEN <<>> ELSE <<episode.uuid>>

\* body carries every field of the command line, each with its coerced value
FullPayload(body) ==
    /\ DOMAIN body = {args_set[i].field : i \in 1..Len(args_set)}
    /\ \A i \in 1..Len(args_set) :
          (\A j \in (i + 1)..Len(args_set) : args_set[j].field # args_set[i].field)
              => body[args_set[i].field] = args_set[i].value
    /\ media_duration \in DOMAIN body => body[media_duration].kind = "int"

\* C7: in an update the k-th PATCH goes to the k-th resolved episode and
\* carries all the coerced field/value pairs; there are never more PATCH calls
\* than resolved episodes, and a successful update has made exactly one per
\* entry of the resolved list (an episode named twice in the list counts
\* twice), whatever the number of fields.
C7_OnePatchPerEpisode ==
    cmd = "update" =>
        /\ Len(PatchCalls) <= Len(Resolved)
        /\ \A k \in 1..Len(PatchCalls) :
              /\ PatchCalls[k].key = Resolved[k]
              /\ FullPayload(PatchCalls[k].body)
        /\ result = "success" =>
              /\ Len(PatchCalls) = Len(Resolved)
              /\ entry = "run" => Len(Resolved) = Len(args_id)

C7_Witness ==
    /\ cmd = "update" /\ entry = "run" /\ result = "success"
    /\ Len(args_id) = 2 /\ Len(PatchCalls) = 2
    /\ Len(args_set) = 2
    /\ DOMAIN PatchCalls[2].body = {title, media_duration}
    /\ PatchCalls[2].body[media_duration] = IntVal(90)

\* C8: a delete of several identifiers that ended in success, all its catalog
\* DELETE calls answered 2xx, has removed every episode the list identifies.
C8_EveryIdentifiedEpisodeDeleted ==
    (/\ cmd = "delete" /\ pc = "done" /\ result = "success"
     /\ \A i \in CallsOf("DELETE") : Ok2xx(calls[i].status))
    => \A i \in 1..Len(RawItems) :
          Lookup(1..MaxEp, RawItems[i]) # 0
              => Lookup(1..MaxEp, RawItems[i]) \notin catalog

\* C9: an update in which a PATCH was answered with a non-2xx status does not
\* end as a success: it ends in the remote error, with a non-zero exit status.
C9_FailedPatchIsAnError ==
    (/\ cmd = "update" /\ pc = "done"
     /\ \E i \in CallsOf("PATCH") :
           calls[i].status # NO_RESPONSE /\ ~Ok2xx(calls[i].status))
    => result = "remote" /\ exitStatus # 0

\* C10: an invocation that ended in a validation error, a not-found or a
\* remote error has reported it and exits non-zero; exit status 0 means that
\* the operation succeeded (every catalog call was answered 2xx).
C10_ExitStatusTellsTheOutcome ==
    pc = "done" =>
        /\ result \in {"validation", "notfound", "remote", "valueerror"}
              => message # "" /\ exitStatus # 0
        /\ exitStatus = 0 =>
              /\ result = "success"
              /\ \A i \in 1..Len(calls) :
                    calls[i].op \notin StoreOps => Ok2xx(calls[i].status)

\* seconds + 60 * minutes + 3600 * hours of a list of 1 to 3 components
HmsSeconds(cs) ==
    LET n == Len(cs)
    IN  cs[n] + (IF n >= 2 THEN 60 * cs[n - 1] ELSE 0)
              + (IF n = 3 THEN 3600 * cs[1] ELSE 0)

\* the media_duration value about to be coerced is the string s
CoercingDuration(s) ==
    /\ pc \in {"coerce", "func"}
    /\ args_set[1].field = media_duration
    /\ args_set[1].value = StrVal(s)

\* the step coerced the value to the integer n and went on towards the PATCH
CoercedTo(n) ==
    /\ args_set'[1].value = IntVal(n)
    /\ result' # "valueerror"
    /\ entry = "cli" => /\ Len(PatchCalls') = 1
                         /\ PatchCalls'[1].body[media_duration] = IntVal(n)

\* C11: the step that coerces a media_duration of 1 to 3 non-negative integer
\* components, written plainly or two digits wide, leaves the integer
\* seconds + 60 * minutes + 3600 * hours as the value to send; and a whole
\* number of seconds below one day, shown as H:MM:SS, is coerced back to the
\* same number.
C11_DurationCoercion ==
    [][ /\ \A cs \in CompSeqs :
              (CoercingDuration(Plain(cs)) \/ CoercingDuration(Padded(cs)))
                  => CoercedTo(HmsSeconds(cs))
        /\ \A n \in SecondsPool :
              (n < SecondsPerDay /\ CoercingDuration(timedelta_str(n)))
                  => CoercedTo(n) ]_vars

C11_Witness ==
    /\ entry = "run" /\ pc = "done" /\ result = "success"
    /\ args_set[1].value = IntVal(3690)
    /\ Len(PatchCalls) = 1
    /\ PatchCalls[1].body[media_duration] = IntVal(3690)

\* value is what coerce leaves for the field: an int for media_duration, the
\* 25 characters of a UTC ISO-8601 instant for pub_date
IsWireValue(field, value) ==
    IF field = media_duration THEN value.kind = "int"
    ELSE IF field = pub_date THEN value.kind = "str" /\ Len(value.str) = 25
    ELSE value.kind = "str"

\* C12: an update that ended in the ValueError of a malformed media_duration
\* or pub_date has sent no PATCH for any episode of the batch; whenever a
\* PATCH has been sent, every field/value pair of the command line had been
\* coerced and the PATCH body holds coerced values only.
C12_CoercionBeforeAnyPatch ==
    cmd = "update" =>
        /\ result = "valueerror" => PatchCalls = <<>>
        /\ PatchCalls # <<>> =>
              /\ \A i \in 1..Len(args_set) :
                    IsWireValue(args_set[i].field, args_set[i].value)
              /\ \A k \in 1..Len(PatchCalls) :
                    \A f \in DOMAIN PatchCalls[k].body :
                        IsWireValue(f, PatchCalls[k].body[f])

C12_Witness ==
    /\ cmd = "update" /\ entry = "run" /\ pc = "done" /\ result = "valueerror"
    /\ Len(episode_uuids) = 2
    /\ Len(args_set) = 2
    /\ args_set[1].field = title
    /\ args_set[2].field \in {media_duration, pub_date}
    /\ args_set[2].value = StrVal(<<"x">>)
    /\ PatchCalls = <<>>
====
